---------------------------- MODULE Spec2Model ----------------------------
(***************************************************************************)
(* Model of src/app.py: the size normaliser (normalize_size, nice_header)  *)
(* and the long-to-wide aggregator (to_wide).                              *)
(*                                                                         *)
(* Representation of Python values                                         *)
(*   str     a sequence of one-character strings                           *)
(*   float   [nan, half, eps]: the value half/2 + eps * 5e-10, or NaN.     *)
(*           eps (|eps| <= 3) carries differences below nice_header's      *)
(*           tolerance of 1e-9, so that 6.0 and 6.0000000005 are distinct  *)
(*           floats; two units of eps are exactly 1e-9.                    *)
(*   Timestamp  whole hours since 1970-01-01T00:00                         *)
(*   cell    a tagged value: missing (NaN), num (int/float), text (str),   *)
(*           temporal (Timestamp / datetime / date)                        *)
(***************************************************************************)
EXTENDS Integers, Sequences, FiniteSets, TLC

VARIABLES pc, val, norm, df, args, out

vars == <<pc, val, norm, df, args, out>>

(***************************************************************************)
(* Bounds of the model                                                     *)
(***************************************************************************)
MaxRows == 2

(***************************************************************************)
(* Floats                                                                  *)
(***************************************************************************)
NaN == [nan |-> TRUE, half |-> 0, eps |-> 0]

F(h, e) == [nan |-> FALSE, half |-> h, eps |-> e]

FInt(n) == F(2 * n, 0)

FLess(a, b) == ~a.nan /\ ~b.nan /\ (a.half < b.half \/ (a.half = b.half /\ a.eps < b.eps))

FLeq(a, b) == ~a.nan /\ ~b.nan /\ (a.half < b.half \/ (a.half = b.half /\ a.eps <= b.eps))

FSubInt(a, n) == IF a.nan THEN NaN ELSE F(a.half - 2 * n, a.eps)

Abs(n) == IF n < 0 THEN -n ELSE n

\* floor of a float, as an integer
FFloor(a) == IF a.half % 2 = 0 /\ a.eps < 0 THEN (a.half \div 2) - 1 ELSE a.half \div 2

\* Python round(x) (the model's floats have |eps| far below 1/2; ties go to even)
PyRound(a) ==
    IF a.half % 2 = 0 THEN a.half \div 2
    ELSE LET lo == a.half \div 2
         IN  IF a.eps > 0 THEN lo + 1
             ELSE IF a.eps < 0 THEN lo
             ELSE IF lo % 2 = 0 THEN lo ELSE lo + 1

\* int(x) / astype(int): truncation toward zero
FTrunc(a) == IF a.half >= 0 THEN FFloor(a) ELSE -FFloor(F(-a.half, -a.eps))

(***************************************************************************)
(* Strings                                                                 *)
(***************************************************************************)
Digits == <<"0", "1", "2", "3", "4", "5", "6", "7", "8", "9">>

Whitespace == {" ", "\t"}

Upper == <<"A","B","C","D","E","F","G","H","I","J","K","L","M","N","O","P","Q","R","S","T","U","V","W","X","Y","Z">>

Lower == <<"a","b","c","d","e","f","g","h","i","j","k","l","m","n","o","p","q","r","s","t","u","v","w","x","y","z">>

\* the characters the model's strings use, in code-point order
Ascii == <<"\t", " ", ",", "-", ".">> \o Digits \o Upper \o Lower

Ord(c) == CHOOSE i \in 1..Len(Ascii) : Ascii[i] = c

IsDigit(c) == \E i \in 1..10 : Digits[i] = c

DigitVal(c) == (CHOOSE i \in 1..10 : Digits[i] = c) - 1

RECURSIVE LStrip(_)
LStrip(s) == IF s # <<>> /\ Head(s) \in Whitespace THEN LStrip(Tail(s)) ELSE s

RECURSIVE RStrip(_)
RStrip(s) == IF s # <<>> /\ s[Len(s)] \in Whitespace THEN RStrip(SubSeq(s, 1, Len(s) - 1)) ELSE s

\* str.strip()
Strip(s) == RStrip(LStrip(s))

\* str.replace(",", ".")
ReplaceComma(s) == [i \in 1..Len(s) |-> IF s[i] = "," THEN "." ELSE s[i]]

LowerChar(c) == IF \E i \in 1..26 : Upper[i] = c THEN Lower[CHOOSE i \in 1..26 : Upper[i] = c] ELSE c

\* str.lower()
StrLower(s) == [i \in 1..Len(s) |-> LowerChar(s[i])]

\* s < t in Python's string order
RECURSIVE StrLess(_, _)
StrLess(s, t) ==
    IF t = <<>> THEN FALSE
    ELSE IF s = <<>> THEN TRUE
    ELSE IF Head(s) # Head(t) THEN Ord(Head(s)) < Ord(Head(t))
    ELSE StrLess(Tail(s), Tail(t))

AllDigits(s) == \A i \in 1..Len(s) : IsDigit(s[i])

RECURSIVE IntVal(_)
IntVal(s) == IF s = <<>> THEN 0 ELSE 10 * IntVal(SubSeq(s, 1, Len(s) - 1)) + DigitVal(s[Len(s)])

AllZero(s) == \A i \in 1..Len(s) : s[i] = "0"

(***************************************************************************)
(* float(s) on a stripped string: [sign] digits [. digits] or [sign] .     *)
(* digits.  ok = FALSE is ValueError.  The fraction digits the model's     *)
(* floats can hold are d, d0..0 with d in {0, 5}, and the ten-digit forms  *)
(* d00000000e with e in {0, 5} (e = 5 is one unit of eps).                 *)
(***************************************************************************)
FracHalf(fr) == IF fr # <<>> /\ fr[1] = "5" THEN 1 ELSE 0

FracEps(fr) == IF Len(fr) = 10 /\ fr[10] = "5" THEN 1 ELSE 0

FracOnGrid(fr) ==
    \/ fr = <<>>
    \/ /\ fr[1] \in {"0", "5"}
       /\ Len(fr) <= 10
       /\ AllZero(SubSeq(fr, 2, IF Len(fr) = 10 THEN 9 ELSE Len(fr)))
       /\ (Len(fr) = 10 => fr[10] \in {"0", "5"})

ParseFloat(s) ==
    LET neg  == s # <<>> /\ s[1] = "-"
        body == IF s # <<>> /\ s[1] \in {"-", "+"} THEN Tail(s) ELSE s
        dots == {i \in 1..Len(body) : body[i] = "."}
        dot  == IF dots = {} THEN Len(body) + 1 ELSE CHOOSE i \in dots : TRUE
        ip   == SubSeq(body, 1, dot - 1)
        fr   == SubSeq(body, dot + 1, Len(body))
        sgn  == IF neg THEN -1 ELSE 1
    IN  IF Cardinality(dots) > 1 \/ ~AllDigits(ip) \/ ~AllDigits(fr) \/ Len(ip) + Len(fr) = 0
        THEN [ok |-> FALSE, value |-> NaN]
        ELSE CASE FracOnGrid(fr) ->
                 [ok |-> TRUE,
                  value |-> F(sgn * (2 * IntVal(ip) + FracHalf(fr)), sgn * FracEps(fr))]

(***************************************************************************)
(* Dates                                                                   *)
(***************************************************************************)
\* days from 1970-01-01 to the civil date y-m-d (proleptic Gregorian)
DaysFromCivil(y, m, d) ==
    LET yy  == IF m <= 2 THEN y - 1 ELSE y
        era == yy \div 400
        yoe == yy - era * 400
        mp  == IF m > 2 THEN m - 3 ELSE m + 9
        doy == ((153 * mp + 2) \div 5) + d - 1
        doe == yoe * 365 + (yoe \div 4) - (yoe \div 100) + doy
    IN  era * 146097 + doe - 719468

IsLeap(y) == (y % 4 = 0 /\ y % 100 # 0) \/ y % 400 = 0

DaysInMonth(y, m) ==
    IF m = 2 THEN (IF IsLeap(y) THEN 29 ELSE 28)
    ELSE IF m \in {4, 6, 9, 11} THEN 30 ELSE 31

\* pd.Timestamp of a calendar date at midnight
TimestampOfDate(y, m, d) == 24 * DaysFromCivil(y, m, d)

\* pd.to_datetime(s, errors="raise") on ISO text YYYY-MM-DD; ok = FALSE is the raised error
ToDatetime(s) ==
    IF Len(s) = 10 /\ s[5] = "-" /\ s[8] = "-"
       /\ AllDigits(SubSeq(s, 1, 4)) /\ AllDigits(SubSeq(s, 6, 7)) /\ AllDigits(SubSeq(s, 9, 10))
    THEN LET y == IntVal(SubSeq(s, 1, 4))
             m == IntVal(SubSeq(s, 6, 7))
             d == IntVal(SubSeq(s, 9, 10))
         IN  IF m \in 1..12 /\ y >= 1 /\ d >= 1 /\ d <= DaysInMonth(y, m)
             THEN [ok |-> TRUE, ts |-> TimestampOfDate(y, m, d)]
             ELSE [ok |-> FALSE, ts |-> 0]
    ELSE [ok |-> FALSE, ts |-> 0]

EXCEL_EPOCH == TimestampOfDate(1899, 12, 30)

SERIAL_OFFSET == 46141

SERIAL_THRESHOLD == 1000

\* (ts - EXCEL_EPOCH).days: Timedelta.days is the floor of the difference in days
excel_serial_from_datetime(ts) == (ts - EXCEL_EPOCH) \div 24

(***************************************************************************)
(* Cells                                                                   *)
(***************************************************************************)
Missing == [tag |-> "missing", num |-> NaN, txt |-> <<>>, ts |-> 0]

Num(f) == [tag |-> "num", num |-> f, txt |-> <<>>, ts |-> 0]

Text(s) == [tag |-> "text", num |-> NaN, txt |-> s, ts |-> 0]

Temporal(t) == [tag |-> "temporal", num |-> NaN, txt |-> <<>>, ts |-> t]

(***************************************************************************)
(* normalize_size                                                          *)
(***************************************************************************)
\* the "numeri" branch, on x = float(val)
NormNumberGe(x) == IF FLeq(FInt(SERIAL_THRESHOLD), x) THEN FSubInt(x, SERIAL_OFFSET) ELSE x

NormNumber(x) == IF FLess(FInt(SERIAL_THRESHOLD), x) THEN FSubInt(x, SERIAL_OFFSET) ELSE x

\* the datetime branch
NormTemporalNoOffset(ts) == FInt(excel_serial_from_datetime(ts))

NormTemporal(ts) == FInt(excel_serial_from_datetime(ts) - SERIAL_OFFSET)

\* the "stringhe" branch
NormText(txt) ==
    LET s == ReplaceComma(Strip(txt))
        p == ParseFloat(s)
        t == ToDatetime(s)
    IN  IF StrLower(s) \in {<<"n", "a", "n">>, <<"n", "o", "n", "e">>, <<>>} THEN NaN
        ELSE IF p.ok THEN NormNumber(p.value)
        ELSE IF t.ok THEN NormTemporal(t.ts)
        ELSE NaN

normalize_size(v) ==
    CASE v.tag = "missing"  -> NaN
      [] v.tag = "temporal" -> NormTemporal(v.ts)
      [] v.tag = "num"      -> NormNumber(v.num)
      [] v.tag = "text"     -> NormText(v.txt)

\* nice_header: an int label when x is within 1e-9 (two units of eps) of an integer
IntLabel(n) == [kind |-> "int", str |-> "", int |-> n, flt |-> NaN]

FloatLabel(x) == [kind |-> "float", str |-> "", int |-> 0, flt |-> x]

StrLabel(s) == [kind |-> "str", str |-> s, int |-> 0, flt |-> NaN]

nice_header(x) ==
    IF x.half % 2 = 0 /\ Abs(x.eps) < 2 THEN IntLabel(PyRound(x)) ELSE FloatLabel(x)

(***************************************************************************)
(* Inputs of normalize_size                                                *)
(***************************************************************************)
Str7 == <<" ", "7", " ">>

Str6c5 == <<"6", ",", "5">>

NormNums ==
    {FInt(n) : n \in {-46150, -2000, -1001, -1000, -999, -1, 0, 6, 9, 20, 999, 1000, 1001,
                      46141, 46150, 46161}}
    \cup {F(13, 0), F(12, 1), F(2000, 1), F(2001, 0), F(2000, -1), F(-2001, 0), F(92283, 0)}

NormTexts ==
    {Str7, Str6c5, <<"6", ".", "5">>, <<"n", "a", "n">>, <<"N", "o", "n", "e">>, <<>>, <<" ">>,
     <<"a", "b", "c">>, <<"4", "6", "1", "5", "0">>, <<" ", "4", "6", "1", "5", "0", ",", "5">>,
     <<"1", "0", "0", "0">>, <<"1", "0", "0", "0", ",", "5">>, <<"-", "1", "0", "0", "1">>,
     <<"-", "4", "6", "1", "5", "0">>,
     <<"6", ".", "0", "0", "0", "0", "0", "0", "0", "0", "0", "5">>,
     <<"2", "0", "2", "6", "-", "0", "5", "-", "0", "8">>,
     <<"2", "0", "2", "6", "-", "0", "2", "-", "3", "0">>,
     <<"1", "8", "9", "9", "-", "1", "2", "-", "3", "0">>,
     <<"6", ".", "5", ".", "1">>, <<"-">>, <<".", "5">>, <<"7", ".">>}

\* timestamps around serial days 0, 1000, 46141, 46150 and 46161, at several hours of the day
NormStamps ==
    {EXCEL_EPOCH + 24 * d + h : d \in {-1, 0, 1, 1000, 1001, 46141, 46147, 46150, 46161},
                                h \in {0, 1, 23}}

NormVals == {Missing} \cup {Num(x) : x \in NormNums} \cup {Text(s) : s \in NormTexts}
            \cup {Temporal(t) : t \in NormStamps}

(***************************************************************************)
(* Data frames: [columns, rows], a row being a function from column names  *)
(* to cells.  A store holds the caller's frame and the frame the local     *)
(* name d is bound to; aliased says that d is bound to the caller's own    *)
(* object, so that an in-place column assignment through d changes it.     *)
(***************************************************************************)
\* d = df (no copy): d is the caller's object
DfAlias(frame) == [caller |-> frame, local |-> frame, aliased |-> TRUE]

\* d = df.copy()
DfCopy(frame) == [caller |-> frame, local |-> frame, aliased |-> FALSE]

HasColumn(st, col) == \E i \in 1..Len(st.local.columns) : st.local.columns[i] = col

\* d[col] = vals, in place
AssignColumn(st, col, vals) ==
    LET fr   == st.local
        newf == [columns |-> IF HasColumn(st, col) THEN fr.columns ELSE Append(fr.columns, col),
                 rows    |-> [i \in 1..Len(fr.rows) |-> (col :> vals[i]) @@ fr.rows[i]]]
    IN  [caller |-> IF st.aliased THEN newf ELSE st.caller, local |-> newf, aliased |-> st.aliased]

\* d = d[mask]: a new frame of the rows i with mask[i]
RECURSIVE SelectRows(_, _, _)
SelectRows(rows, mask, i) ==
    IF i > Len(rows) THEN <<>>
    ELSE (IF mask[i] THEN <<rows[i]>> ELSE <<>>) \o SelectRows(rows, mask, i + 1)

FilterRows(st, mask) ==
    [caller |-> st.caller,
     local |-> [columns |-> st.local.columns, rows |-> SelectRows(st.local.rows, mask, 1)],
     aliased |-> FALSE]

\* Series.astype(str) on an object column of str and NaN cells
AsTypeStr(c) ==
    CASE c.tag = "text"    -> c.txt
      [] c.tag = "missing" -> <<"n", "a", "n">>

\* line 71: d[sku_col].astype(str).str.strip()
SkuText(c) == Text(Strip(AsTypeStr(c)))

\* line 72: d[sku_col].notna() & (d[sku_col] != "")
SkuKeepAll(c) == c.tag # "missing"

SkuKeep(c) == c.tag # "missing" /\ c.txt # <<>>

\* pd.to_numeric(errors="coerce") of one cell
ToNumeric(c) ==
    CASE c.tag = "num"     -> c.num
      [] c.tag = "missing" -> NaN
      [] c.tag = "text"    -> ParseFloat(c.txt).value

FILLNA == 0

\* line 75: pd.to_numeric(..., errors="coerce").fillna(0).astype(int)
QtyInt(c) == LET x == ToNumeric(c) IN IF x.nan THEN FILLNA ELSE FTrunc(x)

\* line 78: normalize_size as a cell of the _size_norm column
SizeNorm(c) == LET x == normalize_size(c) IN IF x.nan THEN Missing ELSE Num(x)

\* line 81: Series.between(size_min, size_max, inclusive="both"); NaN is never between
BetweenExclusive(c, lo, hi) == c.tag = "num" /\ FLess(lo, c.num) /\ FLess(c.num, hi)

Between(c, lo, hi) == c.tag = "num" /\ FLeq(lo, c.num) /\ FLeq(c.num, hi)

(***************************************************************************)
(* Sorting and sums                                                        *)
(***************************************************************************)
RECURSIVE SortStrings(_)
SortStrings(S) ==
    IF S = {} THEN <<>>
    ELSE LET m == CHOOSE x \in S : \A y \in S : ~StrLess(y, x)
         IN  <<m>> \o SortStrings(S \ {m})

RECURSIVE SortFloatSet(_)
SortFloatSet(S) ==
    IF S = {} THEN <<>>
    ELSE LET m == CHOOSE x \in S : \A y \in S : ~FLess(y, x)
         IN  <<m>> \o SortFloatSet(S \ {m})

\* insertion of x into a list of float labels sorted by value, after its equals (stable)
RECURSIVE InsertByFloat(_, _)
InsertByFloat(x, s) ==
    IF s = <<>> THEN <<x>>
    ELSE IF FLess(x.flt, Head(s).flt) THEN <<x>> \o s
    ELSE <<Head(s)>> \o InsertByFloat(x, Tail(s))

\* sorted(labels, key=float)
RECURSIVE SortedByFloat(_)
SortedByFloat(s) ==
    IF s = <<>> THEN <<>>
    ELSE InsertByFloat(s[Len(s)], SortedByFloat(SubSeq(s, 1, Len(s) - 1)))

RECURSIVE SumSeq(_)
SumSeq(s) == IF s = <<>> THEN 0 ELSE Head(s) + SumSeq(Tail(s))

(***************************************************************************)
(* Wide tables: [columns: labels, rows], each row a tuple with one cell    *)
(* per column (a str in the key column, an int in the others)              *)
(***************************************************************************)
FILL_VALUE == 0

\* aggfunc="sum" over the rows of one (key, size) group
AggFirst(rows, idx, col, valc, k, s) ==
    LET hit == {i \in 1..Len(rows) : rows[i][idx].txt = k /\ rows[i][col].num = s}
    IN  rows[CHOOSE i \in hit : \A j \in hit : i <= j][valc].num.half \div 2

AggSum(rows, idx, col, valc, k, s) ==
    SumSeq([i \in 1..Len(rows) |->
              IF rows[i][idx].txt = k /\ rows[i][col].num = s
              THEN rows[i][valc].num.half \div 2 ELSE 0])

\* lines 84-93: pivot_table(index, columns, values, aggfunc="sum", fill_value=0).reset_index()
\* as PivotTable, with the zero-quantity rows taking no part in the grouping
PivotSkipZero(frame, idx, col, valc) ==
    LET rows  == SelectSeq(frame.rows, LAMBDA r : r[valc].num.half # 0)
        keys  == SortStrings({rows[i][idx].txt : i \in 1..Len(rows)})
        sizes == SortFloatSet({rows[i][col].num : i \in 1..Len(rows)})
    IN  [columns |-> <<StrLabel(idx)>> \o [j \in 1..Len(sizes) |-> FloatLabel(sizes[j])],
         rows |-> [r \in 1..Len(keys) |->
                     <<keys[r]>> \o [j \in 1..Len(sizes) |->
                                       AggSum(rows, idx, col, valc, keys[r], sizes[j])]]]

PivotTable(frame, idx, col, valc) ==
    LET rows  == frame.rows
        keys  == SortStrings({rows[i][idx].txt : i \in 1..Len(rows)})
        sizes == SortFloatSet({rows[i][col].num : i \in 1..Len(rows)})
        present(k, s) == \E i \in 1..Len(rows) : rows[i][idx].txt = k /\ rows[i][col].num = s
    IN  [columns |-> <<StrLabel(idx)>> \o [j \in 1..Len(sizes) |-> FloatLabel(sizes[j])],
         rows |-> [r \in 1..Len(keys) |->
                     <<keys[r]>> \o [j \in 1..Len(sizes) |->
                                       IF present(keys[r], sizes[j])
                                       THEN AggSum(rows, idx, col, valc, keys[r], sizes[j])
                                       ELSE FILL_VALUE]]]

\* the positions wide[labels] selects: for each label, in turn, every column bearing it
RECURSIVE Positions(_, _)
Positions(columns, labels) ==
    IF labels = <<>> THEN <<>>
    ELSE SelectSeq([j \in 1..Len(columns) |-> j], LAMBDA j : columns[j] = Head(labels))
         \o Positions(columns, Tail(labels))

\* wide[labels]
SelectColumns(wide, labels) ==
    LET pos == Positions(wide.columns, labels)
    IN  [columns |-> [j \in 1..Len(pos) |-> wide.columns[pos[j]]],
         rows |-> [r \in 1..Len(wide.rows) |-> [j \in 1..Len(pos) |-> wide.rows[r][pos[j]]]]]

\* [c for c in wide.columns if c != sku_col]
NotSku(columns, sku_col) == SelectSeq(columns, LAMBDA c : c # StrLabel(sku_col))

\* line 96: size_cols
SizeCols(wide, sku_col) == SortedByFloat(NotSku(wide.columns, sku_col))

\* lines 100-101: wide.rename(columns={c: nice_header(float(c)) for c in size_cols})
Rename(wide, size_cols) ==
    [columns |-> [j \in 1..Len(wide.columns) |->
                    IF \E i \in 1..Len(size_cols) : size_cols[i] = wide.columns[j]
                    THEN nice_header(wide.columns[j].flt) ELSE wide.columns[j]],
     rows |-> wide.rows]

\* line 106: wide[num_cols].sum(axis=1).astype(int)
RowTotals(wide, num_cols) ==
    LET sel == SelectColumns(wide, num_cols)
    IN  [r \in 1..Len(sel.rows) |-> SumSeq(sel.rows[r])]

\* wide["TOT"] = tot: the new column goes last
InsertTotLast(wide, tot) ==
    [columns |-> Append(wide.columns, StrLabel("TOT")),
     rows |-> [r \in 1..Len(wide.rows) |-> Append(wide.rows[r], tot[r])]]

\* wide.insert(1, "TOT", tot)
InsertTot(wide, tot) ==
    [columns |-> <<wide.columns[1], StrLabel("TOT")>> \o Tail(wide.columns),
     rows |-> [r \in 1..Len(wide.rows) |-> <<wide.rows[r][1], tot[r]>> \o Tail(wide.rows[r])]]

\* lines 104-106
AddTot(wide, sku_col) == InsertTot(wide, RowTotals(wide, NotSku(wide.columns, sku_col)))

EmptyWide == [columns |-> <<>>, rows |-> <<>>]

Raise(st) == [status |-> "KeyError", caller |-> st.caller, wide |-> EmptyWide, size_cols |-> <<>>]

\* lines 83-108, on the filtered frame
Finish(st, a) ==
    LET wide0     == PivotTable(st.local, a.sku_col, "_size_norm", a.qty_col)
        size_cols == SizeCols(wide0, a.sku_col)
        wide1     == SelectColumns(wide0, <<StrLabel(a.sku_col)>> \o size_cols)
        wide2     == Rename(wide1, size_cols)
        wide3     == IF a.add_tot THEN AddTot(wide2, a.sku_col) ELSE wide2
    IN  [status |-> "ok", caller |-> st.caller, wide |-> wide3,
         size_cols |-> [j \in 1..Len(size_cols) |-> size_cols[j].flt]]

\* d[col]: the cells of one column
Column(st, col) == [i \in 1..Len(st.local.rows) |-> st.local.rows[i][col]]

\* to_wide(df, sku_col, size_col, qty_col, size_min, size_max, add_tot)
to_wide(frame, a) ==
    LET s0 == DfCopy(frame)
    IN  IF ~HasColumn(s0, a.sku_col) THEN Raise(s0)
        ELSE
        LET c0 == Column(s0, a.sku_col)
            s1 == AssignColumn(s0, a.sku_col, [i \in DOMAIN c0 |-> SkuText(c0[i])])
            c1 == Column(s1, a.sku_col)
            s2 == FilterRows(s1, [i \in DOMAIN c1 |-> SkuKeep(c1[i])])
        IN  IF ~HasColumn(s2, a.qty_col) THEN Raise(s2)
            ELSE
            LET c2 == Column(s2, a.qty_col)
                s3 == AssignColumn(s2, a.qty_col, [i \in DOMAIN c2 |-> Num(FInt(QtyInt(c2[i])))])
            IN  IF ~HasColumn(s3, a.size_col) THEN Raise(s3)
                ELSE
                LET c3 == Column(s3, a.size_col)
                    s4 == AssignColumn(s3, "_size_norm", [i \in DOMAIN c3 |-> SizeNorm(c3[i])])
                    c4 == Column(s4, "_size_norm")
                    s5 == FilterRows(s4, [i \in DOMAIN c4 |->
                                            Between(c4[i], a.size_min, a.size_max)])
                IN  Finish(s5, a)

(***************************************************************************)
(* Inputs of to_wide                                                       *)
(***************************************************************************)
DfColumns == <<"SKU", "Size", "qty">>

A1 == <<"A", "1">>

B1 == <<"B", "1">>

Row(k, s, q) == [SKU |-> k, Size |-> s, qty |-> q]

\* rows that vary the item key
KeyRows ==
    {Row(k, s, q) : k \in {Text(A1), Text(<<" ", "A", "1", " ">>), Text(B1), Text(<<>>),
                           Text(<<" ", "\t">>), Missing},
                    s \in {Num(FInt(6)), Missing},
                    q \in {Num(FInt(3)), Text(<<"a", "b", "c">>)}}

\* rows that vary the size
SizeRows ==
    {Row(k, s, q) : k \in {Text(A1), Text(B1)},
                    s \in {Num(FInt(6)), Num(F(12, 1)), Text(Str6c5), Num(FInt(0)), Num(F(0, -1)),
                           Num(FInt(20)), Num(F(40, 1)), Num(FInt(46150)), Num(F(18, 0))},
                    q \in {Num(FInt(3)), Num(F(5, 0))}}

RECURSIVE Tables(_, _)
Tables(R, n) ==
    IF n = 0 THEN {<<>>}
    ELSE LET T == Tables(R, n - 1)
         IN  T \cup {Append(t, r) : t \in {u \in T : Len(u) = n - 1}, r \in R}

Frame(t) == [columns |-> DfColumns, rows |-> t]

KeyFrames == {Frame(t) : t \in Tables(KeyRows, MaxRows)}

SizeFrames == {Frame(t) : t \in Tables(SizeRows, MaxRows)}

Ranges == {<<FInt(0), FInt(20)>>, <<FInt(6), F(13, 0)>>}

\* calls that name the table's columns
GoodArgs ==
    {[sku_col |-> "SKU", size_col |-> "Size", qty_col |-> "qty",
      size_min |-> r[1], size_max |-> r[2], add_tot |-> t] : r \in Ranges, t \in BOOLEAN}

\* calls that name a column the table does not have
BadArgs ==
    {[sku_col |-> c[1], size_col |-> c[2], qty_col |-> c[3],
      size_min |-> FInt(0), size_max |-> FInt(20), add_tot |-> TRUE] :
        c \in {<<"Codice", "Size", "qty">>, <<"SKU", "Taglia", "qty">>, <<"SKU", "Size", "Qta">>}}

NoArgs == [sku_col |-> "", size_col |-> "", qty_col |-> "", size_min |-> NaN, size_max |-> NaN,
           add_tot |-> FALSE]

NoFrame == [columns |-> <<>>, rows |-> <<>>]

NoOut == [status |-> "none", wide |-> EmptyWide, size_cols |-> <<>>]

InitNorm ==
    /\ pc = "normalize_size"
    /\ val \in NormVals
    /\ norm = NaN
    /\ df = NoFrame
    /\ args = NoArgs
    /\ out = NoOut

InitWide ==
    /\ pc = "to_wide"
    /\ val = Missing
    /\ norm = NaN
    /\ \/ df \in KeyFrames \cup SizeFrames /\ args \in GoodArgs
       \/ df \in KeyFrames /\ args \in BadArgs
    /\ out = NoOut

\* one call normalize_size(val)
NormalizeSize ==
    /\ pc = "normalize_size"
    /\ norm' = normalize_size(val)
    /\ pc' = "returned_size"
    /\ UNCHANGED <<val, df, args, out>>

\* one call to_wide(df, ...): df is the caller's frame, out the returned table or the error
ToWide ==
    /\ pc = "to_wide"
    /\ LET r == to_wide(df, args)
       IN  /\ df' = r.caller
           /\ out' = [status |-> r.status, wide |-> r.wide, size_cols |-> r.size_cols]
    /\ pc' = "returned_wide"
    /\ UNCHANGED <<val, norm, args>>

Init == InitNorm \/ InitWide

Next == NormalizeSize \/ ToWide

Spec == Init /\ [][Next]_vars


(***************************************************************************)
(* Vocabulary of the properties.  The call has returned a table when pc =  *)
(* "returned_wide" and out.status = "ok"; df is then the table the caller  *)
(* passed (see C10).                                                       *)
(***************************************************************************)
Returned == pc = "returned_wide" /\ out.status = "ok"

InIdx == 1..Len(df.rows)

\* the item key of input row i, converted to text and trimmed
KeyOf(i) == Strip(AsTypeStr(df.rows[i][args.sku_col]))

\* the canonical size of input row i (NaN when unparsable)
SizeOf(i) == normalize_size(df.rows[i][args.size_col])

\* the coerced quantity of input row i
QtyOf(i) == QtyInt(df.rows[i][args.qty_col])

InRange(x) == ~x.nan /\ FLeq(args.size_min, x) /\ FLeq(x, args.size_max)

\* the filtered input: key non-empty after trimming, size parsable and inside the range
Kept == {i \in InIdx : KeyOf(i) # <<>> /\ InRange(SizeOf(i))}

QtySum(I) == SumSeq([i \in InIdx |-> IF i \in I THEN QtyOf(i) ELSE 0])

OutIdx == 1..Len(out.wide.rows)

OutKey(r) == out.wide.rows[r][1]

\* the size columns are the last Len(out.size_cols) columns; column SizeBase + j holds size_cols[j]
SizeBase == Len(out.wide.columns) - Len(out.size_cols)

SizeIdx == 1..Len(out.size_cols)

SizeCell(r, j) == out.wide.rows[r][SizeBase + j]

RowSizeSum(r) == SumSeq([j \in SizeIdx |-> SizeCell(r, j)])

TotLabel == StrLabel("TOT")

FAbs(x) == IF x.half < 0 \/ (x.half = 0 /\ x.eps < 0) THEN F(-x.half, -x.eps) ELSE x

\* C1: the size cells of the returned table (TOT excluded) sum to the coerced
\* quantities of exactly the input rows whose key is non-empty after trimming
\* and whose normalized size is parsable and inside [size_min, size_max].
C1_SumConserved ==
    Returned => SumSeq([r \in OutIdx |-> RowSizeSum(r)]) = QtySum(Kept)

C1_Witness ==
    /\ Returned
    /\ Len(df.rows) = 2
    /\ Cardinality(Kept) = 1
    /\ QtySum(Kept) = 3
    /\ QtySum(InIdx) = 6

\* C2: one output row per distinct key of the filtered input, and cell (k, s)
\* is the sum of the filtered quantities of key k and canonical size s, 0 when
\* there is no such row.
C2_PivotCells ==
    Returned =>
        /\ {OutKey(r) : r \in OutIdx} = {KeyOf(i) : i \in Kept}
        /\ \A r1, r2 \in OutIdx : OutKey(r1) = OutKey(r2) => r1 = r2
        /\ \A r \in OutIdx : \A j \in SizeIdx :
               SizeCell(r, j) =
                   QtySum({i \in Kept : KeyOf(i) = OutKey(r) /\ SizeOf(i) = out.size_cols[j]})

C2_Witness ==
    /\ Returned
    /\ Len(out.wide.rows) = 2
    /\ Len(out.size_cols) = 2
    /\ \E r \in OutIdx : \E j \in SizeIdx :
           /\ SizeCell(r, j) = 0
           /\ ~\E i \in Kept : KeyOf(i) = OutKey(r) /\ SizeOf(i) = out.size_cols[j]
    /\ \E r \in OutIdx : \E j \in SizeIdx : SizeCell(r, j) = 3

\* C3: with add_tot, in every output row TOT equals the sum of the row's size
\* cells and the sum of the key's filtered quantities, for every input,
\* header collisions included.
C3_TotIsRowSum ==
    (Returned /\ args.add_tot) =>
        \A r \in OutIdx :
            /\ out.wide.rows[r][2] = RowSizeSum(r)
            /\ out.wide.rows[r][2] = QtySum({i \in Kept : KeyOf(i) = OutKey(r)})

\* C4: the columns are the key column, then TOT iff add_tot, then exactly one
\* column per distinct canonical size of the filtered input, strictly
\* ascending by canonical value.
C4_ColumnLayout ==
    Returned =>
        /\ out.wide.columns[1] = StrLabel(args.sku_col)
        /\ SizeBase = (IF args.add_tot THEN 2 ELSE 1)
        /\ args.add_tot => out.wide.columns[2] = TotLabel
        /\ \A c \in 1..Len(out.wide.columns) :
               out.wide.columns[c] = TotLabel => (args.add_tot /\ c = 2)
        /\ {out.size_cols[j] : j \in SizeIdx} = {SizeOf(i) : i \in Kept}
        /\ \A j \in SizeIdx : j > 1 => FLess(out.size_cols[j - 1], out.size_cols[j])
        /\ \A j \in SizeIdx : out.wide.columns[SizeBase + j] = nice_header(out.size_cols[j])

C4_Witness ==
    /\ Returned
    /\ args.add_tot
    /\ Len(df.rows) = 2
    /\ InRange(SizeOf(1)) /\ InRange(SizeOf(2)) /\ FLess(SizeOf(2), SizeOf(1))
    /\ Len(out.wide.columns) = 4

\* C5: a row whose key is missing, empty or only whitespace gives no output
\* row and no quantity, and no output key is empty or stands for a missing key.
KeyPresent(i) ==
    LET c == df.rows[i][args.sku_col] IN c.tag = "text" /\ Strip(c.txt) # <<>>

C5_MissingKeysExcluded ==
    Returned =>
        \A r \in OutIdx :
            /\ OutKey(r) # <<>>
            /\ \E i \in InIdx : KeyPresent(i) /\ OutKey(r) = Strip(df.rows[i][args.sku_col].txt)
            /\ RowSizeSum(r) =
                   QtySum({i \in Kept : KeyPresent(i) /\ KeyOf(i) = OutKey(r)})

\* C6 as stated: normalize_size of a number x (or of text that parses as the
\* number x) is x - 46141 when the magnitude of x exceeds 1000, else x.
ParsedNumber(v) ==
    IF v.tag = "num" THEN [ok |-> TRUE, value |-> v.num]
    ELSE IF v.tag = "text"
              /\ StrLower(ReplaceComma(Strip(v.txt))) \notin {<<"n", "a", "n">>, <<"n", "o", "n", "e">>, <<>>}
         THEN ParseFloat(ReplaceComma(Strip(v.txt)))
         ELSE [ok |-> FALSE, value |-> NaN]

C6_MagnitudeRule ==
    (pc = "returned_size" /\ ParsedNumber(val).ok) =>
        LET x == ParsedNumber(val).value
        IN  norm = IF FLess(FInt(1000), FAbs(x)) THEN F(x.half - 2 * 46141, x.eps) ELSE x

\* C6 amended: normalize_size of a number x (or of text that parses as the
\* number x) is x - 46141 when x itself exceeds 1000, and x unchanged
\* otherwise: at exactly 1000, and at every negative x whatever its magnitude.
C6_PositiveRule ==
    (pc = "returned_size" /\ ParsedNumber(val).ok) =>
        LET x == ParsedNumber(val).value
        IN  norm = IF FLess(FInt(1000), x) THEN F(x.half - 2 * 46141, x.eps) ELSE x

C6_Witness ==
    /\ pc = "returned_size"
    /\ val = Num(FInt(-2000))
    /\ norm = FInt(-2000)

\* C7: a timestamp lying d days after 1899-12-30 and the raw integer d > 1000
\* both normalize to d - 46141 (46150 gives 9.0 by both paths), and rows of one
\* key with size cells 46150 and 9.0 are summed into one column.
SerialDays == -2..46200

Is46150or9(i) == df.rows[i][args.size_col] \in {Num(FInt(46150)), Num(F(18, 0))}

C7_SerialPaths ==
    /\ (pc = "returned_size" /\ val.tag = "temporal") =>
           \A d \in SerialDays :
               (24 * d <= val.ts - EXCEL_EPOCH /\ val.ts - EXCEL_EPOCH < 24 * (d + 1))
                   => norm = FInt(d - 46141)
    /\ (pc = "returned_size" /\ val.tag = "num" /\ val.num.half % 2 = 0 /\ val.num.eps = 0
           /\ val.num.half > 2000) => norm = F(val.num.half - 2 * 46141, 0)
    /\ Returned =>
           \A i \in Kept : Is46150or9(i) =>
               \E r \in OutIdx : \E j \in SizeIdx :
                   /\ OutKey(r) = KeyOf(i)
                   /\ out.size_cols[j] = FInt(9)
                   /\ out.wide.columns[SizeBase + j] = IntLabel(9)
                   /\ \A j2 \in SizeIdx : out.size_cols[j2] = FInt(9) => j2 = j
                   /\ SizeCell(r, j) >= QtySum({i2 \in Kept : KeyOf(i2) = KeyOf(i) /\ Is46150or9(i2)})
                   /\ SizeCell(r, j) = QtySum({i2 \in Kept : KeyOf(i2) = KeyOf(i) /\ SizeOf(i2) = FInt(9)})

C7_Witness ==
    /\ pc = "returned_size"
    /\ val = Temporal(EXCEL_EPOCH + 24 * 46150 + 23)
    /\ norm = FInt(9)

\* C8: a row is kept iff its canonical size is parsable and size_min <= size
\* <= size_max, both ends included; other rows give no column and no quantity.
C8_RangeInclusive ==
    Returned =>
        /\ \A i \in InIdx : KeyOf(i) # <<>> =>
               ((~SizeOf(i).nan /\ FLeq(args.size_min, SizeOf(i)) /\ FLeq(SizeOf(i), args.size_max))
                    <=> \E j \in SizeIdx : out.size_cols[j] = SizeOf(i))
        /\ \A j \in SizeIdx :
               FLeq(args.size_min, out.size_cols[j]) /\ FLeq(out.size_cols[j], args.size_max)
        /\ \A r \in OutIdx :
               RowSizeSum(r) =
                   QtySum({i \in InIdx : /\ KeyOf(i) = OutKey(r)
                                         /\ ~SizeOf(i).nan
                                         /\ FLeq(args.size_min, SizeOf(i))
                                         /\ FLeq(SizeOf(i), args.size_max)})

C8_Witness ==
    /\ Returned
    /\ args.size_min = FInt(0) /\ args.size_max = FInt(20)
    /\ \E i \in InIdx : SizeOf(i) = FInt(20)
    /\ \E i \in InIdx : SizeOf(i) = F(40, 1)
    /\ out.size_cols = <<FInt(20)>>

\* C9: a row whose quantity does not parse counts as quantity 0 and is not
\* dropped: its key still has an output row and its size an output column.
QtyUnparsable(i) == ToNumeric(df.rows[i][args.qty_col]).nan

C9_UnparsableQtyKept ==
    Returned =>
        \A i \in Kept : QtyUnparsable(i) =>
            \E r \in OutIdx : \E j \in SizeIdx :
                /\ OutKey(r) = KeyOf(i)
                /\ out.size_cols[j] = SizeOf(i)
                /\ SizeCell(r, j) =
                       QtySum({i2 \in Kept : /\ KeyOf(i2) = KeyOf(i)
                                             /\ SizeOf(i2) = SizeOf(i)
                                             /\ ~QtyUnparsable(i2)})

C9_Witness ==
    /\ Returned
    /\ Len(df.rows) = 1
    /\ QtyUnparsable(1)
    /\ Len(out.wide.rows) = 1
    /\ Len(out.size_cols) = 1
    /\ SizeCell(1, 1) = 0

\* C10: a call of to_wide, returning a table or failing, leaves the caller's
\* table as it was: same columns, same rows, same cells.
C10_CallerUntouched == [][df' = df]_vars

C10_Witness ==
    /\ Returned
    /\ df.columns = DfColumns
    /\ \E i \in InIdx : df.rows[i].SKU = Text(<<" ", "A", "1", " ">>) /\ df.rows[i].qty = Text(<<"a", "b", "c">>)
    /\ \E r \in OutIdx : OutKey(r) = A1

=============================================================================
